---- MODULE Spec2Model ----
(***************************************************************************)
(* pykaniko: the Kaniko configuration object (kaniko/kaniko.py), its       *)
(* configure / shell_command / build operations, the executor child        *)
(* process build spawns, and the log parser.                               *)
(***************************************************************************)
EXTENDS Integers, Sequences, FiniteSets, TLC

VARIABLES
    self,      \* the instance __dict__ of the Kaniko object: attribute name -> value
    pc,        \* where the calling thread stands: "idle" or a line of build
    kwargs,    \* the options of the most recent call, as (key, value) items in order
    fs,        \* the filesystem: path -> document last written there
    proc,      \* the executor child process of the build call in progress
    pipe,      \* the bytes the executor has written to its stdout/stderr pipe
    outcome,   \* how the most recent call ended (return value or exception)
    calls,     \* number of calls made on the object so far
    before,    \* history: the instance __dict__ as the most recent call found it
    supplied,  \* history: setting passed so far -> the value most recently passed for it
    wrote,     \* history: the path _write_config wrote in the build call in progress
    prev,      \* history: options and argv of the previous build call that spawned
    logs       \* the byte string handed to _parse_logs

vars == <<self, pc, kwargs, fs, proc, pipe, outcome, calls, before, supplied, wrote, prev,
          logs>>

-----------------------------------------------------------------------------
(* Bounds of the model.                                                    *)

MaxCalls == 2      \* calls made on one Kaniko object
MaxLogLen == 4     \* length of the byte strings enumerated for _parse_logs
PipeCapacity == 3  \* bytes the pipe holds before a write to it blocks

-----------------------------------------------------------------------------
(* Python values.  Every value is a record of the same shape: t is the     *)
(* type's name, s the text str() gives for a scalar, l the items of a      *)
(* list or tuple.                                                          *)

None == [t |-> "NoneType", s |-> "None", l |-> <<>>]
True == [t |-> "bool", s |-> "True", l |-> <<>>]
False == [t |-> "bool", s |-> "False", l |-> <<>>]
Str(x) == [t |-> "str", s |-> x, l |-> <<>>]
List(xs) == [t |-> "list", s |-> "", l |-> xs]
Tuple(xs) == [t |-> "tuple", s |-> "", l |-> xs]
Function(name) == [t |-> "function", s |-> "<function " \o name \o ">", l |-> <<>>]
Method(name) == [t |-> "method", s |-> "<bound method Kaniko." \o name \o ">", l |-> <<>>]

\* class KanikoSnapshotMode(Enum) / class KanikoVerbosity(Enum): name -> value
KanikoSnapshotMode == [full |-> "full", time |-> "time"]
KanikoVerbosity == [panic |-> "panic", fatal |-> "fatal", error |-> "error",
                    warn |-> "warn", info |-> "info", debug |-> "debug"]
SnapshotMode(name) == [t |-> "KanikoSnapshotMode", s |-> name, l |-> <<>>]
Verbosity(name) == [t |-> "KanikoVerbosity", s |-> name, l |-> <<>>]

\* member.value of an Enum member
EnumValue(v) ==
    IF v.t = "KanikoSnapshotMode" THEN KanikoSnapshotMode[v.s] ELSE KanikoVerbosity[v.s]

\* bool(v): None, False, '' and empty containers are false, every other object true
Truthy(v) ==
    CASE v.t = "NoneType" -> FALSE
      [] v.t = "bool" -> v = True
      [] v.t = "str" -> v.s # ""
      [] v.t \in {"list", "tuple"} -> v.l # <<>>
      [] OTHER -> TRUE

RECURSIVE ReprItems(_)
ReprItems(xs) ==
    IF xs = <<>> THEN ""
    ELSE "'" \o Head(xs) \o "'" \o (IF Len(xs) > 1 THEN ", " ELSE "") \o ReprItems(Tail(xs))

\* what an f-string writes for {v}: format(v, '') = str(v)
Format(v) ==
    CASE v.t = "list" -> "[" \o ReprItems(v.l) \o "]"
      [] v.t = "tuple" -> "(" \o ReprItems(v.l) \o ")"
      [] v.t \in {"KanikoSnapshotMode", "KanikoVerbosity"} -> v.t \o "." \o v.s
      [] OTHER -> v.s

\* isinstance(v, Callable)
IsCallableValue(v) == v.t \in {"function", "method"}

-----------------------------------------------------------------------------
(* The class Kaniko: its attributes in declaration order.                  *)

SettingNames ==
    << "docker_registry_uri", "registry_username", "registry_password", "build_args",
       "context", "cache", "cache_dir", "cache_repo", "destination", "digest_file",
       "dockerfile", "force", "oci_layout_path", "insecure_registry",
       "skip_tls_verify_registry", "cleanup", "insecure", "insecure_pull", "no_push",
       "reproducible", "single_snapshot", "skip_tls_verify", "skip_tls_verify_pull",
       "snapshot_mode", "target", "tar_path", "verbosity", "kaniko_path" >>

Settings == {SettingNames[i] : i \in 1..Len(SettingNames)}

\* the settings that have a _get_shell_part_ method, in the order the methods are declared
HandlerSettings ==
    << "build_args", "context", "cache", "cache_dir", "cache_repo", "destination",
       "digest_file", "dockerfile", "force", "oci_layout_path", "insecure_registry",
       "skip_tls_verify_registry", "cleanup", "insecure", "insecure_pull", "no_push",
       "reproducible", "single_snapshot", "skip_tls_verify", "skip_tls_verify_pull",
       "snapshot_mode", "target", "tar_path", "verbosity" >>

HandlerNames == [i \in 1..Len(HandlerSettings) |-> "_get_shell_part_" \o HandlerSettings[i]]

\* Kaniko.__dict__.keys()
ClassDictKeys ==
    << "__module__", "__annotations__", "__doc__" >> \o SettingNames \o
    << "__init__", "build", "configure", "shell_command", "_is_callable", "_make_config",
       "_write_config", "_parse_logs", "_shell_part_handlers" >> \o HandlerNames \o
    << "__dict__", "__weakref__" >>

ClassAttrs == {ClassDictKeys[i] : i \in 1..Len(ClassDictKeys)}

\* the class attributes that are properties (data descriptors without a setter)
Properties == {"shell_command", "_shell_part_handlers"}

\* the class attributes that are plain functions: looked up on an instance they are bound methods
Methods == (ClassAttrs \ (Settings \cup Properties)) \ {"__module__", "__annotations__",
                                                        "__doc__", "__dict__", "__weakref__"}

\* the value a setting is declared with in the class body
ClassDefault(name) ==
    CASE name \in {"build_args", "insecure_registry", "skip_tls_verify_registry"} -> List(<<>>)
      [] name \in {"cache", "force", "cleanup", "insecure", "insecure_pull", "no_push",
                   "reproducible", "single_snapshot", "skip_tls_verify",
                   "skip_tls_verify_pull"} -> False
      [] name = "kaniko_path" -> Str("/kaniko")
      [] OTHER -> None

\* every str a name can continue with after a prefix the code tests for
Tails ==
    {HandlerSettings[i] : i \in 1..Len(HandlerSettings)}
    \cup {"get_shell_part_" \o HandlerSettings[i] : i \in 1..Len(HandlerSettings)}
    \cup {"is_callable", "make_config", "write_config", "parse_logs", "shell_part_handlers",
          "configure_attribute_names", "_module__", "_annotations__", "_doc__", "_init__",
          "_dict__", "_weakref__"}

\* str.startswith(prefix)
StartsWith(str, prefix) == \E tail \in Tails : str = prefix \o tail

\* every attribute name dir() can report for a Kaniko object, sorted as dir() sorts
SortedNames ==
 << "__annotations__", "__class__", "__delattr__", "__dict__", "__dir__", "__doc__",
    "__eq__", "__format__", "__ge__", "__getattribute__", "__getstate__", "__gt__",
    "__hash__", "__init__", "__init_subclass__", "__le__", "__lt__", "__module__",
    "__ne__", "__new__", "__reduce__", "__reduce_ex__", "__repr__", "__setattr__",
    "__sizeof__", "__str__", "__subclasshook__", "__weakref__",
    "_configure_attribute_names", "_get_shell_part_build_args", "_get_shell_part_cache",
    "_get_shell_part_cache_dir", "_get_shell_part_cache_repo", "_get_shell_part_cleanup",
    "_get_shell_part_context", "_get_shell_part_destination",
    "_get_shell_part_digest_file", "_get_shell_part_dockerfile", "_get_shell_part_force",
    "_get_shell_part_insecure", "_get_shell_part_insecure_pull",
    "_get_shell_part_insecure_registry", "_get_shell_part_no_push",
    "_get_shell_part_oci_layout_path", "_get_shell_part_reproducible",
    "_get_shell_part_single_snapshot", "_get_shell_part_skip_tls_verify",
    "_get_shell_part_skip_tls_verify_pull", "_get_shell_part_skip_tls_verify_registry",
    "_get_shell_part_snapshot_mode", "_get_shell_part_tar_path",
    "_get_shell_part_target", "_get_shell_part_verbosity", "_is_callable",
    "_make_config", "_parse_logs", "_shell_part_handlers", "_write_config", "build",
    "build_args", "cache", "cache_dir", "cache_repo", "cleanup", "configure", "context",
    "destination", "digest_file", "docker_registry_uri", "dockerfile", "force",
    "insecure", "insecure_pull", "insecure_registry", "kaniko_path", "no_push",
    "nonexistent_attribute", "oci_layout_path", "registry_password", "registry_username",
    "reproducible", "shell_command", "single_snapshot", "skip_tls_verify",
    "skip_tls_verify_pull", "skip_tls_verify_registry", "snapshot_mode", "tar_path",
    "target", "verbosity" >>

\* attributes every object has from class object
ObjectAttrs ==
    {"__class__", "__delattr__", "__dir__", "__doc__", "__eq__", "__format__", "__ge__",
     "__getattribute__", "__getstate__", "__gt__", "__hash__", "__init__",
     "__init_subclass__", "__le__", "__lt__", "__ne__", "__new__", "__reduce__",
     "__reduce_ex__", "__repr__", "__setattr__", "__sizeof__", "__str__",
     "__subclasshook__"}

\* dir(self): the names in the instance __dict__ and in its classes, sorted
Dir(d) ==
    SelectSeq(SortedNames, LAMBDA n : n \in ClassAttrs \/ n \in ObjectAttrs \/ n \in DOMAIN d)

\* Kaniko.__init__
KanikoInit ==
    "_configure_attribute_names" :>
        Tuple(SelectSeq(ClassDictKeys, LAMBDA key : ~StartsWith(key, "_")))

-----------------------------------------------------------------------------
(* shell_command and the _get_shell_part_ methods.  d is the instance      *)
(* __dict__.  A setting is read as Python reads self.<name>: the instance   *)
(* __dict__ first, then the class.                                         *)

Attr(d, name) == IF name \in DOMAIN d THEN d[name] ELSE ClassDefault(name)

RECURSIVE AppendEach(_, _, _)
\* for arg in items: command.append(f'{flag}{arg}')
AppendEach(command, flag, items) ==
    IF items = <<>> THEN command
    ELSE AppendEach(Append(command, flag \o Head(items)), flag, Tail(items))

\* the methods of the shape  if self.x: command.append('--x')
BoolPart(d, command, name, flag) ==
    IF Truthy(Attr(d, name)) THEN Append(command, flag) ELSE command

\* ValuePart with the test  if self.x is not None
ValuePartNotNone(d, command, name, flag) ==
    IF Attr(d, name) # None THEN Append(command, flag \o Format(Attr(d, name)))
    ELSE command

\* the methods of the shape  if self.x: command.append(f'--x={self.x}')
ValuePart(d, command, name, flag) ==
    IF Truthy(Attr(d, name)) THEN Append(command, flag \o Format(Attr(d, name)))
    ELSE command

\* the methods of the shape  if self.x: command.append(f'--x={self.x.value}')
EnumPart(d, command, name, flag) ==
    IF Truthy(Attr(d, name)) THEN Append(command, flag \o EnumValue(Attr(d, name)))
    ELSE command

_get_shell_part_build_args(d, command) ==
    AppendEach(command, "--build-arg=", Attr(d, "build_args").l)

_get_shell_part_context(d, command) == ValuePart(d, command, "context", "--context=")

_get_shell_part_cache(d, command) == BoolPart(d, command, "cache", "--cache")

_get_shell_part_cache_dir(d, command) == ValuePart(d, command, "cache_dir", "--cache-dir=")

_get_shell_part_cache_repo(d, command) == ValuePart(d, command, "cache_repo", "--cache-repo=")

\* _get_shell_part_destination without the isinstance(self.destination, list) branch
_get_shell_part_destination_scalar(d, command) ==
    ValuePart(d, command, "destination", "--destination=")

_get_shell_part_destination(d, command) ==
    LET destination == Attr(d, "destination") IN
    IF Truthy(destination)
    THEN IF destination.t = "list"
         THEN AppendEach(command, "--destination=", destination.l)
         ELSE Append(command, "--destination=" \o Format(destination))
    ELSE command

_get_shell_part_digest_file(d, command) ==
    ValuePart(d, command, "digest_file", "--digest-file=")

_get_shell_part_dockerfile(d, command) == ValuePart(d, command, "dockerfile", "--dockerfile=")

_get_shell_part_force(d, command) == BoolPart(d, command, "force", "--force")

_get_shell_part_oci_layout_path(d, command) ==
    ValuePart(d, command, "oci_layout_path", "--oci-layout-path=")

_get_shell_part_insecure_registry(d, command) ==
    AppendEach(command, "--insecure-registry=", Attr(d, "insecure_registry").l)

_get_shell_part_skip_tls_verify_registry(d, command) ==
    AppendEach(command, "--skip-tls-verify-registry=", Attr(d, "skip_tls_verify_registry").l)

_get_shell_part_cleanup(d, command) == BoolPart(d, command, "cleanup", "--cleanup")

_get_shell_part_insecure(d, command) == BoolPart(d, command, "insecure", "--insecure")

_get_shell_part_insecure_pull(d, command) ==
    BoolPart(d, command, "insecure_pull", "--insecure-pull")

_get_shell_part_no_push(d, command) == BoolPart(d, command, "no_push", "--no-push")

_get_shell_part_reproducible(d, command) ==
    BoolPart(d, command, "reproducible", "--reproducible")

_get_shell_part_single_snapshot(d, command) ==
    BoolPart(d, command, "single_snapshot", "--single-snapshot")

_get_shell_part_skip_tls_verify(d, command) ==
    BoolPart(d, command, "skip_tls_verify", "--skip-tls-verify")

_get_shell_part_skip_tls_verify_pull(d, command) ==
    BoolPart(d, command, "skip_tls_verify_pull", "--skip-tls-verify-pull")

_get_shell_part_snapshot_mode(d, command) ==
    EnumPart(d, command, "snapshot_mode", "--snapshotMode=")

_get_shell_part_target(d, command) == ValuePart(d, command, "target", "--target=")

_get_shell_part_tar_path(d, command) == ValuePart(d, command, "tar_path", "--tarPath=")

_get_shell_part_verbosity(d, command) == EnumPart(d, command, "verbosity", "--verbosity=")

\* getattr(self, handler)(command)
CallHandler(d, handler, command) ==
    CASE handler = "_get_shell_part_build_args" -> _get_shell_part_build_args(d, command)
      [] handler = "_get_shell_part_context" -> _get_shell_part_context(d, command)
      [] handler = "_get_shell_part_cache" -> _get_shell_part_cache(d, command)
      [] handler = "_get_shell_part_cache_dir" -> _get_shell_part_cache_dir(d, command)
      [] handler = "_get_shell_part_cache_repo" -> _get_shell_part_cache_repo(d, command)
      [] handler = "_get_shell_part_destination" -> _get_shell_part_destination(d, command)
      [] handler = "_get_shell_part_digest_file" -> _get_shell_part_digest_file(d, command)
      [] handler = "_get_shell_part_dockerfile" -> _get_shell_part_dockerfile(d, command)
      [] handler = "_get_shell_part_force" -> _get_shell_part_force(d, command)
      [] handler = "_get_shell_part_oci_layout_path" ->
             _get_shell_part_oci_layout_path(d, command)
      [] handler = "_get_shell_part_insecure_registry" ->
             _get_shell_part_insecure_registry(d, command)
      [] handler = "_get_shell_part_skip_tls_verify_registry" ->
             _get_shell_part_skip_tls_verify_registry(d, command)
      [] handler = "_get_shell_part_cleanup" -> _get_shell_part_cleanup(d, command)
      [] handler = "_get_shell_part_insecure" -> _get_shell_part_insecure(d, command)
      [] handler = "_get_shell_part_insecure_pull" -> _get_shell_part_insecure_pull(d, command)
      [] handler = "_get_shell_part_no_push" -> _get_shell_part_no_push(d, command)
      [] handler = "_get_shell_part_reproducible" -> _get_shell_part_reproducible(d, command)
      [] handler = "_get_shell_part_single_snapshot" ->
             _get_shell_part_single_snapshot(d, command)
      [] handler = "_get_shell_part_skip_tls_verify" ->
             _get_shell_part_skip_tls_verify(d, command)
      [] handler = "_get_shell_part_skip_tls_verify_pull" ->
             _get_shell_part_skip_tls_verify_pull(d, command)
      [] handler = "_get_shell_part_snapshot_mode" -> _get_shell_part_snapshot_mode(d, command)
      [] handler = "_get_shell_part_target" -> _get_shell_part_target(d, command)
      [] handler = "_get_shell_part_tar_path" -> _get_shell_part_tar_path(d, command)
      [] handler = "_get_shell_part_verbosity" -> _get_shell_part_verbosity(d, command)

\* the names for which method.startswith('_get_shell_part_') is true
ShellPartNames ==
    {SortedNames[i] : i \in {j \in 1..Len(SortedNames) :
                                StartsWith(SortedNames[j], "_get_shell_part_")}}

\* _shell_part_handlers listing the methods as the class body declares them
_shell_part_handlers_declared(d) == HandlerNames

\* the property _shell_part_handlers
_shell_part_handlers(d) == SelectSeq(Dir(d), LAMBDA method : method \in ShellPartNames)

RECURSIVE RunHandlers(_, _, _)
\* for handler in handlers: getattr(self, handler)(command)
RunHandlers(d, handlers, command) ==
    IF handlers = <<>> THEN command
    ELSE RunHandlers(d, Tail(handlers), CallHandler(d, Head(handlers), command))

\* the property shell_command
shell_command(d) ==
    LET executor_path == Attr(d, "kaniko_path").s \o "/executor" IN
    RunHandlers(d, _shell_part_handlers(d), <<executor_path>>)

-----------------------------------------------------------------------------
(* configure.                                                              *)

\* getattr(self, attribute_name, None)
GetAttr(d, attribute_name) ==
    CASE attribute_name = "shell_command" -> List(shell_command(d))
      [] attribute_name = "_shell_part_handlers" -> List(_shell_part_handlers(d))
      [] attribute_name \in DOMAIN d -> d[attribute_name]
      [] attribute_name \in Settings -> ClassDefault(attribute_name)
      [] attribute_name \in Methods \cup ObjectAttrs -> Method(attribute_name)
      [] OTHER -> None

\* _is_callable that finds nothing callable
_is_callable_never(d, attribute_name) == FALSE

_is_callable(d, attribute_name) == IsCallableValue(GetAttr(d, attribute_name))

\* the names configure accepts: self._configure_attribute_names
ConfigureNames(d) ==
    LET names == d["_configure_attribute_names"].l IN {names[i] : i \in 1..Len(names)}

\* the test of configure's loop that skips a key
Skips(d, key) == key \notin ConfigureNames(d) \/ _is_callable(d, key)

\* setattr(self, key, value) on an attribute that is not a property
SetAttr(d, key, value) == [n \in DOMAIN d \cup {key} |-> IF n = key THEN value ELSE d[n]]

RECURSIVE configure(_, _)
\* configure(**kw): kw is the sequence of (key, value) items in the order they were passed.
\* Gives the instance __dict__ the call leaves and the exception it raises ("" for none).
configure(d, kw) ==
    IF kw = <<>> THEN [d |-> d, raised |-> ""]
    ELSE LET key == Head(kw).key
             value == Head(kw).value
         IN  IF Skips(d, key) THEN configure(d, Tail(kw))
             ELSE IF key \in Properties THEN [d |-> d, raised |-> "AttributeError"]
             ELSE configure(SetAttr(d, key, value), Tail(kw))

-----------------------------------------------------------------------------
(* _parse_logs.  A byte string is a sequence of integers 0..255, a str a   *)
(* sequence of code points.                                                *)

\* a UTF-8 continuation byte
IsCont(b) == b >= 128 /\ b <= 191

\* the length of the UTF-8 sequence that starts bytes, 0 if it is not a valid one
Utf8Len(bytes) ==
    LET b0 == bytes[1]
        n == Len(bytes)
    IN  CASE b0 < 128 -> 1
          [] b0 >= 194 /\ b0 <= 223 -> IF n >= 2 /\ IsCont(bytes[2]) THEN 2 ELSE 0
          [] b0 >= 224 /\ b0 <= 239 ->
                 IF n >= 3 /\ IsCont(bytes[2]) /\ IsCont(bytes[3])
                    /\ (b0 = 224 => bytes[2] >= 160) /\ (b0 = 237 => bytes[2] <= 159)
                 THEN 3 ELSE 0
          [] b0 >= 240 /\ b0 <= 244 ->
                 IF n >= 4 /\ IsCont(bytes[2]) /\ IsCont(bytes[3]) /\ IsCont(bytes[4])
                    /\ (b0 = 240 => bytes[2] >= 144) /\ (b0 = 244 => bytes[2] <= 143)
                 THEN 4 ELSE 0
          [] OTHER -> 0

\* the code point of a valid UTF-8 sequence of k bytes at the start of bytes
Utf8CodePoint(bytes, k) ==
    CASE k = 1 -> bytes[1]
      [] k = 2 -> (bytes[1] - 192) * 64 + (bytes[2] - 128)
      [] k = 3 -> (bytes[1] - 224) * 4096 + (bytes[2] - 128) * 64 + (bytes[3] - 128)
      [] k = 4 -> (bytes[1] - 240) * 262144 + (bytes[2] - 128) * 4096
                  + (bytes[3] - 128) * 64 + (bytes[4] - 128)

RECURSIVE Utf8Decode(_)
\* logs.decode('utf-8'), errors='strict': the text, or the UnicodeDecodeError it raises
Utf8Decode(bytes) ==
    IF bytes = <<>> THEN [ok |-> TRUE, text |-> <<>>]
    ELSE LET k == Utf8Len(bytes) IN
         IF k = 0 THEN [ok |-> FALSE, text |-> <<>>]
         ELSE LET rest == Utf8Decode(SubSeq(bytes, k + 1, Len(bytes))) IN
              [ok |-> rest.ok,
               text |-> IF rest.ok THEN <<Utf8CodePoint(bytes, k)>> \o rest.text ELSE <<>>]

\* the characters str.strip() removes: those for which str.isspace() is true
IsSpace(c) ==
    \/ c \in 9..13 \/ c \in 28..32 \/ c \in {133, 160, 5760}
    \/ c \in 8192..8202 \/ c \in {8232, 8233, 8239, 8287, 12288}

RECURSIVE LStrip(_)
LStrip(text) == IF text # <<>> /\ IsSpace(Head(text)) THEN LStrip(Tail(text)) ELSE text

RECURSIVE RStrip(_)
RStrip(text) ==
    IF text # <<>> /\ IsSpace(text[Len(text)]) THEN RStrip(SubSeq(text, 1, Len(text) - 1))
    ELSE text

\* str.strip()
Strip(text) == RStrip(LStrip(text))

RECURSIVE SplitFrom(_, _, _)
\* str.split(sep) for a one-character sep: current is the row being read
SplitFrom(text, sep, current) ==
    IF text = <<>> THEN <<current>>
    ELSE IF Head(text) = sep THEN <<current>> \o SplitFrom(Tail(text), sep, <<>>)
    ELSE SplitFrom(Tail(text), sep, Append(current, Head(text)))

Split(text, sep) == SplitFrom(text, sep, <<>>)

\* the line feed character
LF == 10

\* _parse_logs(logs): the rows, or ok = FALSE when decode raises UnicodeDecodeError
_parse_logs(bytes) ==
    LET decoded == Utf8Decode(bytes) IN
    IF ~decoded.ok THEN [ok |-> FALSE, rows |-> <<>>]
    ELSE LET rows == Split(Strip(decoded.text), LF) IN
         [ok |-> TRUE, rows |-> [i \in 1..Len(rows) |-> Strip(rows[i])]]

-----------------------------------------------------------------------------
(* _make_config and _write_config.                                         *)

\* os.path.join(a, b) for a path a that does not end in '/' and a relative b
OsPathJoin(a, b) == a \o "/" \o b

\* json.dumps writes a None key as "null"
JsonKey(v) == IF v.t = "NoneType" THEN "null" ELSE v.s

\* b64encode(text.encode('ascii')).decode('ascii'), kept as the encoding of its argument
B64Encode(text) == "b64(" \o text \o ")"

\* json.dumps(self._make_config()): {"auths": {<uri>: {"auth": <auth>}}}
_make_config(d) ==
    [uri |-> JsonKey(Attr(d, "docker_registry_uri")),
     auth |-> B64Encode(Format(Attr(d, "registry_username")) \o ":"
                        \o Format(Attr(d, "registry_password")))]

\* the path _write_config writes
ConfigPath(d) == OsPathJoin(OsPathJoin(Attr(d, "kaniko_path").s, ".docker"), "config.json")

\* _write_config: makedirs(exist_ok = True), then the file is opened for writing and written
_write_config(d, f) ==
    LET config_folder_path == OsPathJoin(Attr(d, "kaniko_path").s, ".docker")
        path == OsPathJoin(config_folder_path, "config.json")
    IN  [dirs |-> f.dirs \cup {config_folder_path},
         files |-> [p \in DOMAIN f.files \cup {path} |->
                        IF p = path THEN _make_config(d) ELSE f.files[p]]]

-----------------------------------------------------------------------------
(* The inputs: the options a call is made with.                            *)

Item(k, v) == [key |-> k, value |-> v]

\* the configuration of tests/kaniko_tests.py (get_config)
TestConfig ==
    << Item("kaniko_path", Str("/kaniko/path")),
       Item("build_args", List(<<"1", "2", "3">>)),
       Item("cache", True), Item("force", True),
       Item("nonexistent_attribute", True) >>

\* the settings declared Optional[str] that have a flag
StrSettings ==
    {"context", "cache_dir", "cache_repo", "digest_file", "dockerfile", "oci_layout_path",
     "target", "tar_path"}

BoolSettings ==
    {"cache", "force", "cleanup", "insecure", "insecure_pull", "no_push", "reproducible",
     "single_snapshot", "skip_tls_verify", "skip_tls_verify_pull"}

ListSettings == {"build_args", "insecure_registry", "skip_tls_verify_registry"}

\* one (key, value) item: values of the declared type of each setting, a function
\* object for two of them, and keys that are not settings
Items ==
    {Item(k, v) : k \in StrSettings, v \in {Str(""), Str("v")}}
    \cup {Item(k, v) : k \in {"context", "target"}, v \in {None, Function("f")}}
    \cup {Item(k, True) : k \in BoolSettings}
    \cup {Item("cache", False)}
    \cup {Item(k, List(<<"a", "b">>)) : k \in ListSettings}
    \cup {Item("build_args", List(<<>>))}
    \cup {Item("destination", v) :
             v \in {None, Str(""), Str("d"), List(<<>>), List(<<"d1", "d2">>), Function("f")}}
    \cup {Item("snapshot_mode", v) : v \in {None, SnapshotMode("full"), SnapshotMode("time")}}
    \cup {Item("verbosity", v) :
             v \in {None} \cup {Verbosity(n) : n \in DOMAIN KanikoVerbosity}}
    \cup {Item("kaniko_path", v) : v \in {Str("/kaniko"), Str("/kaniko/path")}}
    \cup {Item(k, Str("r")) :
             k \in {"docker_registry_uri", "registry_username", "registry_password"}}
    \cup {Item(k, Str("x")) :
             k \in {"build", "configure", "shell_command", "_parse_logs",
                    "_get_shell_part_cache", "_configure_attribute_names",
                    "nonexistent_attribute"}}

\* the options of the configure calls of SpecConfigure
ConfigureOptions ==
    {<<i>> : i \in Items}
    \cup {TestConfig,
          << Item("cache", True), Item("shell_command", Str("x")), Item("force", True) >>}

\* the options of the configure and build calls of Spec
Options ==
    { <<>>,
      << Item("kaniko_path", Str("/kaniko/path")) >>,
      << Item("cache", True) >>,
      << Item("docker_registry_uri", Str("r")), Item("registry_username", Str("u")),
         Item("registry_password", Str("p")) >>,
      << Item("context", Function("f")) >>,
      << Item("context", Str("c")) >>,
      << Item("force", True), Item("shell_command", Str("x")), Item("cleanup", True) >>,
      << Item("build", Str("x")), Item("configure", Str("x")),
         Item("_get_shell_part_cache", Str("x")),
         Item("_configure_attribute_names", Tuple(<<>>)),
         Item("nonexistent_attribute", True) >> }

\* what the executor writes to its output and how it exits
ExecutorOutputs == {<<>>, <<32, 97, 10>>, <<194>>, <<97, 10, 10, 97, 10>>}
ExitCodes == {0, 1, -9}

\* the bytes of the enumerated inputs of _parse_logs: LF, space, 'a', and the two
\* bytes of U+00A0 (each invalid alone)
LogBytes == {10, 32, 97, 194, 160}

\* '\nsome\n little\n strings \n'.encode('utf-8') of tests/kaniko_tests.py
TestLogs ==
    << 10, 115, 111, 109, 101, 10, 32, 108, 105, 116, 116, 108, 101, 10, 32, 115, 116,
       114, 105, 110, 103, 115, 32, 10 >>

LogInputs == UNION {[1..n -> LogBytes] : n \in 0..MaxLogLen} \cup {TestLogs}

-----------------------------------------------------------------------------
(* The state machine.                                                      *)

NoOutcome == [op |-> "none", kind |-> "none", exc |-> "", exit_code |-> 0, body |-> <<>>]
Returned(op, body) ==
    [op |-> op, kind |-> "return", exc |-> "", exit_code |-> 0, body |-> body]
Raised(op, exc, exit_code, body) ==
    [op |-> op, kind |-> "raise", exc |-> exc, exit_code |-> exit_code, body |-> body]

NoProc == [state |-> "none", argv |-> <<>>, todo |-> <<>>, returncode |-> 0]
NoPrev == [valid |-> FALSE, kwargs |-> <<>>, argv |-> <<>>]
NoFiles == [dirs |-> {}, files |-> <<>>]

\* the value most recently passed for each setting, after a call with options kw
Supplied(sup, kw) ==
    [s \in DOMAIN sup \cup {kw[i].key : i \in {j \in 1..Len(kw) : kw[j].key \in Settings}} |->
        IF \E i \in 1..Len(kw) : kw[i].key = s
        THEN kw[CHOOSE i \in 1..Len(kw) : kw[i].key = s].value
        ELSE sup[s]]

Init ==
    /\ self = KanikoInit
    /\ pc = "idle"
    /\ kwargs = <<>>
    /\ fs = NoFiles
    /\ proc = NoProc
    /\ pipe = <<>>
    /\ outcome = NoOutcome
    /\ calls = 0
    /\ before = KanikoInit
    /\ supplied = <<>>
    /\ wrote = ""
    /\ prev = NoPrev
    /\ logs = <<>>

\* kaniko.configure(**kw)
Configure(kw) ==
    /\ pc = "idle"
    /\ calls < MaxCalls
    /\ LET r == configure(self, kw) IN
       /\ self' = r.d
       /\ outcome' = IF r.raised = "" THEN Returned("configure", <<>>)
                     ELSE Raised("configure", r.raised, 0, <<>>)
    /\ kwargs' = kw
    /\ calls' = calls + 1
    /\ before' = self
    /\ supplied' = Supplied(supplied, kw)
    /\ prev' = NoPrev
    /\ UNCHANGED <<pc, fs, proc, pipe, wrote, logs>>

\* kaniko.build(**kw), line 239: self.configure(**kwargs)
Build(kw) ==
    /\ pc = "idle"
    /\ calls < MaxCalls
    /\ LET r == configure(self, kw) IN
       /\ self' = r.d
       /\ IF r.raised = ""
          THEN pc' = "write_config" /\ outcome' = NoOutcome /\ prev' = prev
          ELSE pc' = "idle" /\ outcome' = Raised("build", r.raised, 0, <<>>) /\ prev' = NoPrev
    /\ kwargs' = kw
    /\ calls' = calls + 1
    /\ before' = self
    /\ supplied' = Supplied(supplied, kw)
    /\ wrote' = ""
    /\ UNCHANGED <<fs, proc, pipe, logs>>

\* build, line 240: self._write_config()
WriteConfig ==
    /\ pc = "write_config"
    /\ fs' = _write_config(self, fs)
    /\ wrote' = ConfigPath(self)
    /\ pc' = "spawn"
    /\ UNCHANGED <<self, kwargs, proc, pipe, outcome, calls, before, supplied, prev, logs>>

\* build, line 242: subprocess.Popen(self.shell_command, stdout=PIPE, stderr=STDOUT)
Spawn ==
    /\ pc = "spawn"
    /\ \E out \in ExecutorOutputs, code \in ExitCodes :
          proc' = [state |-> "running", argv |-> shell_command(self), todo |-> out,
                   returncode |-> code]
    /\ pipe' = <<>>
    /\ pc' = "wait"
    /\ UNCHANGED <<self, kwargs, fs, outcome, calls, before, supplied, wrote, prev, logs>>

\* build, line 242: Popen raises (no executable at kaniko_path): the error propagates
SpawnFails ==
    /\ pc = "spawn"
    /\ pc' = "idle"
    /\ outcome' = Raised("build", "OSError", 0, <<>>)
    /\ prev' = NoPrev
    /\ UNCHANGED <<self, kwargs, fs, proc, pipe, calls, before, supplied, wrote, logs>>

\* the executor writes one byte of its output; the write blocks while the pipe is full
ExecutorWrite ==
    /\ proc.state = "running"
    /\ proc.todo # <<>>
    /\ Len(pipe) < PipeCapacity
    /\ pipe' = Append(pipe, Head(proc.todo))
    /\ proc' = [proc EXCEPT !.todo = Tail(proc.todo)]
    /\ UNCHANGED <<self, pc, kwargs, fs, outcome, calls, before, supplied, wrote, prev, logs>>

\* the executor terminates once it has written all its output
ExecutorExit ==
    /\ proc.state = "running"
    /\ proc.todo = <<>>
    /\ proc' = [proc EXCEPT !.state = "exited"]
    /\ UNCHANGED <<self, pc, kwargs, fs, pipe, outcome, calls, before, supplied, wrote, prev, logs>>

\* build, line 243: res.wait() returns when the executor has terminated
Wait ==
    /\ pc = "wait"
    /\ proc.state = "exited"
    /\ pc' = "read"
    /\ UNCHANGED <<self, kwargs, fs, proc, pipe, outcome, calls, before, supplied, wrote, prev,
                   logs>>

\* build, lines 245-250: the result of the call from the exit code and the output
BuildResult(exit_code, output) ==
    LET body == _parse_logs(output) IN
    IF ~body.ok THEN Raised("build", "UnicodeDecodeError", 0, <<>>)
    ELSE IF exit_code # 0 THEN Raised("build", "KanikoBuildException", exit_code, body.rows)
    ELSE Returned("build", body.rows)

\* Read of a build that puts the settings back as it found them when the executor failed
ReadRollback ==
    /\ pc = "read"
    /\ outcome' = BuildResult(proc.returncode, pipe)
    /\ self' = IF proc.returncode # 0 THEN before ELSE self
    /\ prev' = [valid |-> TRUE, kwargs |-> kwargs, argv |-> proc.argv]
    /\ proc' = NoProc
    /\ pipe' = <<>>
    /\ pc' = "idle"
    /\ UNCHANGED <<kwargs, fs, calls, before, supplied, wrote, logs>>

\* build, lines 245-250: read the output, raise or return
Read ==
    /\ pc = "read"
    /\ outcome' = BuildResult(proc.returncode, pipe)
    /\ prev' = [valid |-> TRUE, kwargs |-> kwargs, argv |-> proc.argv]
    /\ proc' = NoProc
    /\ pipe' = <<>>
    /\ pc' = "idle"
    /\ UNCHANGED <<self, kwargs, fs, calls, before, supplied, wrote, logs>>

Next ==
    \/ \E kw \in Options : Configure(kw)
    \/ \E kw \in Options : Build(kw)
    \/ WriteConfig
    \/ Spawn
    \/ SpawnFails
    \/ ExecutorWrite
    \/ ExecutorExit
    \/ Wait
    \/ Read

Spec == Init /\ [][Next]_vars

\* configure calls only, over every setting
NextConfigure == \E kw \in ConfigureOptions : Configure(kw)

SpecConfigure == Init /\ [][NextConfigure]_vars

\* _parse_logs alone, on every byte string of LogInputs
InitParse ==
    /\ logs \in LogInputs
    /\ self = KanikoInit
    /\ pc = "idle"
    /\ kwargs = <<>>
    /\ fs = NoFiles
    /\ proc = NoProc
    /\ pipe = <<>>
    /\ outcome = NoOutcome
    /\ calls = 0
    /\ before = KanikoInit
    /\ supplied = <<>>
    /\ wrote = ""
    /\ prev = NoPrev

\* Kaniko()._parse_logs(logs)
ParseLogs ==
    /\ outcome = NoOutcome
    /\ LET r == _parse_logs(logs) IN
       outcome' = IF r.ok THEN Returned("_parse_logs", r.rows)
                  ELSE Raised("_parse_logs", "UnicodeDecodeError", 0, <<>>)
    /\ UNCHANGED <<self, pc, kwargs, fs, proc, pipe, calls, before, supplied, wrote, prev, logs>>

SpecParse == InitParse /\ [][ParseLogs]_vars

-----------------------------------------------------------------------------
(* Helpers of the properties.                                              *)

\* the value each setting reads as on the object
SettingValues(d) == [s \in Settings |-> Attr(d, s)]

\* the keys of the options kw
Keys(kw) == {kw[i].key : i \in 1..Len(kw)}

\* a fresh object on which every setting was set, in one call, to the value it has on d
Canonical(d) ==
    [n \in Settings \cup {"_configure_attribute_names"} |->
        IF n \in Settings THEN Attr(d, n) ELSE KanikoInit[n]]

\* the order in which the settings' tokens stand in every argument list
FlagOrder ==
    << "build_args", "cache", "cache_dir", "cache_repo", "cleanup", "context",
       "destination", "digest_file", "dockerfile", "force", "insecure", "insecure_pull",
       "insecure_registry", "no_push", "oci_layout_path", "reproducible",
       "single_snapshot", "skip_tls_verify", "skip_tls_verify_pull",
       "skip_tls_verify_registry", "snapshot_mode", "tar_path", "target", "verbosity" >>

\* the methods of the settings of FlagOrder
FlagOrderHandlers == [i \in 1..Len(FlagOrder) |-> "_get_shell_part_" \o FlagOrder[i]]

RECURSIVE TokensInOrder(_, _)
\* the tokens the methods of order add, each method's tokens taken alone, one after the
\* other
TokensInOrder(d, order) ==
    IF order = <<>> THEN <<>>
    ELSE CallHandler(d, Head(order), <<>>) \o TokensInOrder(d, Tail(order))

\* the setting values of tests/kaniko_tests.py and the argument list the test expects
TestValues ==
    [s \in Settings |->
        CASE s = "kaniko_path" -> Str("/kaniko/path")
          [] s = "build_args" -> List(<<"1", "2", "3">>)
          [] s \in {"cache", "force"} -> True
          [] OTHER -> ClassDefault(s)]

TestCommand ==
    << "/kaniko/path/executor", "--build-arg=1", "--build-arg=2", "--build-arg=3",
       "--cache", "--force" >>

\* every text a value or a list element of the inputs is written as after a flag's '='
ValueTexts ==
    {"", "v", "d", "d1", "d2", "a", "b", "1", "2", "3", "None", "True", "False", "[]",
     "['d1', 'd2']", "['a', 'b']", "<function f>", "full", "time", "panic", "fatal",
     "error", "warn", "info", "debug", "KanikoSnapshotMode.full", "KanikoSnapshotMode.time"}
    \cup {"KanikoVerbosity." \o n : n \in DOMAIN KanikoVerbosity}

\* the flags that take a value, and every token that is such a flag followed by a value
ValueFlags ==
    {"--build-arg=", "--context=", "--cache-dir=", "--cache-repo=", "--destination=",
     "--digest-file=", "--dockerfile=", "--oci-layout-path=", "--insecure-registry=",
     "--skip-tls-verify-registry=", "--snapshotMode=", "--target=", "--tarPath=",
     "--verbosity="}

FlagTokens == [flag \in ValueFlags |-> {flag \o x : x \in ValueTexts}]

\* the tokens of command that are flag followed by a value
TokensWith(command, flag) == SelectSeq(command, LAMBDA token : token \in FlagTokens[flag])

\* the optional scalar and enum settings and their flags
ScalarFlags ==
    [context |-> "--context=", cache_dir |-> "--cache-dir=", cache_repo |-> "--cache-repo=",
     digest_file |-> "--digest-file=", dockerfile |-> "--dockerfile=",
     oci_layout_path |-> "--oci-layout-path=", target |-> "--target=",
     tar_path |-> "--tarPath=", snapshot_mode |-> "--snapshotMode=",
     verbosity |-> "--verbosity="]

\* the text a scalar is written as: an enum member as its symbolic string
Rendered(v) == IF v.t \in {"KanikoSnapshotMode", "KanikoVerbosity"} THEN v.s ELSE Format(v)

\* the rows of a text: split at line feeds, each row stripped, in order
StrippedLines(text) ==
    LET rows == Split(text, LF) IN [i \in 1..Len(rows) |-> Strip(rows[i])]

-----------------------------------------------------------------------------
(* The properties.                                                         *)

\* C1 (as claimed): after any sequence of configure calls every setting holds the value
\* most recently passed for it (its default if none was), whatever the value, and no
\* key that is not a setting has become an attribute of the object.
C1_LastSuppliedValue ==
    /\ \A s \in Settings :
          Attr(self, s) = IF s \in DOMAIN supplied THEN supplied[s] ELSE ClassDefault(s)
    /\ DOMAIN self \subseteq Settings \cup {"_configure_attribute_names"}

\* C2: the argument list starts with kaniko_path + '/executor'; after it stand the
\* settings' tokens in one fixed order; it depends on the setting values alone (an object
\* that got the same values in one call gives the same list); keys that are not settings
\* add nothing; the test's configuration gives exactly the test's list.
C2_ShellCommandOrder ==
    LET command == shell_command(self) IN
    /\ command[1] = Attr(self, "kaniko_path").s \o "/executor"
    /\ command = <<command[1]>> \o TokensInOrder(self, FlagOrderHandlers)
    /\ command = shell_command(Canonical(self))
    /\ "nonexistent_attribute" \notin DOMAIN self
    /\ SettingValues(self) = TestValues => command = TestCommand

\* C2 witness: the test's configure call was made and the list is the test's list
C2_Witness ==
    /\ kwargs = TestConfig
    /\ outcome.kind = "return"
    /\ shell_command(self) = TestCommand

\* C3 (as claimed): a build call whose executor has terminated ends in one of two ways,
\* by the exit code alone: nonzero, KanikoBuildException with that exit code and the
\* parsed lines of the output; zero, the parsed lines are returned.
C3_TwoOutcomes ==
    [][(pc = "read" /\ pc' = "idle") =>
          LET lines == StrippedLines(Strip(Utf8Decode(pipe).text)) IN
          IF proc.returncode # 0
          THEN outcome' = Raised("build", "KanikoBuildException", proc.returncode, lines)
          ELSE outcome' = Returned("build", lines)]_vars

\* C4 (as claimed): for every byte string _parse_logs returns the lines of the output in
\* order, each stripped, with no blank entry first or last; for the test's bytes it
\* returns some, little, strings.
C4_ParsedLines ==
    outcome.op = "_parse_logs" =>
        /\ outcome.kind = "return"
        /\ LET rows == outcome.body
               lines == StrippedLines(Utf8Decode(logs).text)
           IN  /\ \A i \in 1..Len(rows) : rows[i] = Strip(rows[i])
               /\ rows # <<>> => rows[1] # <<>> /\ rows[Len(rows)] # <<>>
               /\ \E lo \in 0..Len(lines), hi \in 0..Len(lines) :
                     /\ rows = SubSeq(lines, lo + 1, hi)
                     /\ \A i \in (1..lo) \cup ((hi + 1)..Len(lines)) : lines[i] = <<>>
               /\ logs = TestLogs =>
                     rows = << <<115, 111, 109, 101>>, <<108, 105, 116, 116, 108, 101>>,
                               <<115, 116, 114, 105, 110, 103, 115>> >>

C6_ScalarTokens ==
    LET command == shell_command(self) IN
    \A s \in DOMAIN ScalarFlags :
        LET v == Attr(self, s)
            tokens == TokensWith(command, ScalarFlags[s])
        IN  IF v # None THEN tokens = <<ScalarFlags[s] \o Rendered(v)>> ELSE tokens = <<>>

\* C6 (amended): as claimed, but the token is there when the value is neither None nor
\* the empty string, and not there when it is None or the empty string.
C6_ScalarTokensNonEmpty ==
    LET command == shell_command(self) IN
    \A s \in DOMAIN ScalarFlags :
        LET v == Attr(self, s)
            tokens == TokensWith(command, ScalarFlags[s])
        IN  IF v # None /\ v # Str("") THEN tokens = <<ScalarFlags[s] \o Rendered(v)>>
            ELSE tokens = <<>>

\* C6 witness: a str setting and an enum setting are set and both tokens are in the list
C6_Witness ==
    /\ Attr(self, "context") = Str("v")
    /\ Attr(self, "verbosity") = Verbosity("debug")
    /\ TokensWith(shell_command(self), "--context=") = <<"--context=v">>
    /\ TokensWith(shell_command(self), "--verbosity=") = <<"--verbosity=debug">>

\* The steps of a build call that got past the options: the options are applied, then
\* the config file is written at {kaniko_path}/.docker/config.json from the settings as
\* the call overrode them, then the executor is spawned with the argv of the same
\* settings, then the call waits for it to terminate, then the output is read.
BuildStepsInOrder ==
    LET kaniko_path == Attr(self, "kaniko_path").s
        path == kaniko_path \o "/.docker/config.json"
    IN  /\ pc # "idle" => self = configure(self, kwargs).d
        /\ pc = "write_config" => wrote = "" /\ proc.state = "none"
        /\ pc = "spawn" => proc.state = "none"
        /\ pc \in {"spawn", "wait", "read"} =>
              /\ wrote = path
              /\ path \in DOMAIN fs.files
              /\ fs.files[path] = _make_config(self)
              /\ \A i \in 1..Len(kwargs) :
                    kwargs[i].key = "kaniko_path" => kaniko_path = kwargs[i].value.s
        /\ proc.state # "none" =>
              /\ pc \in {"wait", "read"}
              /\ proc.argv = shell_command(self)
              /\ proc.argv[1] = kaniko_path \o "/executor"
        /\ pc = "read" => proc.state = "exited" /\ proc.todo = <<>>

\* C7 (as claimed): in every build call the options are applied first, then the config
\* file is written, then the executor is spawned, then the call waits for it to
\* terminate, then the output is read; the executor is never spawned before the call
\* has written {kaniko_path}/.docker/config.json from the settings as the call
\* overrode them; and every build call writes the file, also with no credentials set.
C7_BuildOrder ==
    /\ BuildStepsInOrder
    /\ (pc = "idle" /\ outcome.op = "build") =>
          wrote = Attr(self, "kaniko_path").s \o "/.docker/config.json"

\* C8: after any configure and build calls the names configure accepts are those
\* computed at construction, and no attribute of the instance stands in for build,
\* configure, shell_command or another method of the class.
C8_OperationsUnchanged ==
    /\ self["_configure_attribute_names"] = KanikoInit["_configure_attribute_names"]
    /\ ConfigureNames(self) = Settings \cup {"build", "configure", "shell_command"}
    /\ DOMAIN self \cap (Methods \cup Properties) = {}
    /\ \A m \in Methods : GetAttr(self, m) = Method(m)

\* C8 witness: a build call passed build, configure, a flag handler and
\* _configure_attribute_names as options and returned
C8_Witness ==
    /\ {"build", "configure", "_get_shell_part_cache", "_configure_attribute_names"}
           \subseteq Keys(kwargs)
    /\ outcome.op = "build"
    /\ outcome.kind = "return"

\* C9 (as claimed): a configure call whose keys are all outside the settings, the names
\* build, configure and shell_command included, returns without an error and leaves
\* the object as it was.
C9_NonSettingsSkipped ==
    (outcome.op = "configure" /\ Keys(kwargs) \cap Settings = {}) =>
        (outcome.kind = "return" /\ self = before)

\* C10 (as claimed): when a build call returns or raises KanikoBuildException every
\* setting passed in its options holds the value passed; a build call builds its argv
\* and its config file from the settings, and a setting it was not passed is as the
\* earlier calls left it; two build calls in a row with the same options spawn the
\* executor with the same argv.
C10_OptionsPersist ==
    /\ (outcome.op = "build" /\ (outcome.kind = "return" \/ outcome.exc = "KanikoBuildException"))
          => \A i \in 1..Len(kwargs) :
                kwargs[i].key \in Settings => Attr(self, kwargs[i].key) = kwargs[i].value
    /\ (pc # "idle" \/ outcome.op = "build")
          => \A s \in Settings \ Keys(kwargs) : Attr(self, s) = Attr(before, s)
    /\ proc.state # "none"
          => /\ proc.argv = shell_command(self)
             /\ fs.files[wrote] = _make_config(self)
             /\ (prev.valid /\ prev.kwargs = kwargs) => proc.argv = prev.argv

\* C10 (amended): as claimed, but a setting passed in the options holds the value passed
\* only if the value stored under it when the call was made was not callable; a setting
\* whose stored value was callable keeps that value.
C10_OptionsPersistUnlessCallable ==
    /\ (outcome.op = "build" /\ (outcome.kind = "return" \/ outcome.exc = "KanikoBuildException"))
          => \A i \in 1..Len(kwargs) :
                kwargs[i].key \in Settings =>
                    Attr(self, kwargs[i].key) =
                        IF IsCallableValue(Attr(before, kwargs[i].key))
                        THEN Attr(before, kwargs[i].key) ELSE kwargs[i].value
    /\ (pc # "idle" \/ outcome.op = "build")
          => \A s \in Settings \ Keys(kwargs) : Attr(self, s) = Attr(before, s)
    /\ proc.state # "none"
          => /\ proc.argv = shell_command(self)
             /\ fs.files[wrote] = _make_config(self)
             /\ (prev.valid /\ prev.kwargs = kwargs) => proc.argv = prev.argv

\* C10 witness: a build call that was passed a setting has raised KanikoBuildException
\* right after a build call with the same options, and the setting holds the value passed
C10_Witness ==
    /\ outcome.op = "build"
    /\ outcome.exc = "KanikoBuildException"
    /\ kwargs = << Item("cache", True) >>
    /\ Attr(self, "cache") = True
    /\ Attr(before, "cache") = True
    /\ calls = 2

====
